---- MODULE Spec2Model ----
(***************************************************************************)
(* Model of exchanges/lighter.py (class LighterClient): the market         *)
(* metadata cache, the decimal <-> base-unit conversions, order placement,  *)
(* order lookup and the WebSocket connect/disconnect management.            *)
(*                                                                         *)
(* Every method of LighterClient is synchronous between two awaits and the *)
(* metadata fetch is a blocking requests.get, so each method is one atomic  *)
(* action.  The answers of the outside world (HTTP responses, the vendor    *)
(* SDK) are chosen nondeterministically inside the action that asks.        *)
(***************************************************************************)
EXTENDS Integers, Sequences, FiniteSets, TLC

VARIABLES
    market_details,        \* self._market_details : symbol -> decimals
    market_indices,        \* self._market_indices : symbol -> market_id
    markets_loaded,        \* self._markets_loaded
    fetches,               \* number of requests.get calls issued so far
    loaded_from,           \* the response body of the last fetch that loaded
    order_update_handler,  \* self._order_update_handler is set
    ws_client,             \* self.ws_client : <<>> (None) or <<client>>
    clients,               \* number of lighter.WsClient objects constructed
    last                   \* the last call: operation, arguments, outcome

vars == <<market_details, market_indices, markets_loaded, fetches,
          loaded_from, order_update_handler, ws_client, clients, last>>

----------------------------------------------------------------------------
(* Bounds of the model. *)

MaxFetches == 3      \* cap on the fetch counter
MaxMant == 7         \* decimal inputs have mantissa -MaxMant..MaxMant
MaxExp == 1          \* ... and at most MaxExp fractional digits
MaxClients == 2      \* cap on the number of socket clients constructed
MaxTasks == 2        \* cap on the run_async tasks started on one client

----------------------------------------------------------------------------
(* Python values. An optional value is <<>> (None) or <<v>>. *)

None == <<>>
Some(v) == <<v>>
IsNone(o) == o = <<>>
Val(o) == o[1]

RECURSIVE Pow10(_)
Pow10(n) == IF n = 0 THEN 1 ELSE 10 * Pow10(n - 1)

(* decimal.Decimal: the value m * 10^-e. *)
Dec(m, e) == [m |-> m, e |-> e]

(* Decimal * (10 ** decimals) *)
DecMulPow10(x, d) == Dec(x.m * Pow10(d), x.e)

(* Decimal / 10^k (exact at these magnitudes) *)
DecDivPow10(x, k) == Dec(x.m, x.e + k)

(* A faulty variant of DecToInt: rounds half up instead of truncating. *)
IntRoundHalfUp(x) ==
    LET q == Pow10(x.e)
    IN  IF x.m >= 0 THEN (2 * x.m + q) \div (2 * q)
        ELSE -((2 * (-x.m) + q) \div (2 * q))

(* int(Decimal): truncation toward zero. *)
DecToInt(x) ==
    LET q == Pow10(x.e)
    IN  IF x.m >= 0 THEN x.m \div q ELSE -((-x.m) \div q)

Abs(n) == IF n < 0 THEN -n ELSE n

(* str(n) of a small non-negative integer. *)
Digits == <<"0", "1", "2", "3", "4", "5", "6", "7", "8", "9">>
Str(n) == Digits[n + 1]

----------------------------------------------------------------------------
(* The metadata endpoint. *)

Symbols == {"ETH", "BTC", "SOL", "DOGE"}

Market(sym, sd, pd, id) ==
    [is_dict |-> TRUE, symbol |-> sym, size_decimals |-> sd,
     price_decimals |-> pd, market_id |-> id]

mETH == Market(Some("ETH"), Some(2), Some(1), Some(0))
mETH2 == Market(Some("ETH"), Some(1), Some(2), Some(0))
mBTC == Market(Some("BTC"), Some(0), Some(2), Some(1))
mSOL == Market(Some("SOL"), None, None, Some(2))
mNoSymbol == Market(None, Some(2), Some(2), Some(5))
(* A list element that is no JSON object: market.get raises. *)
mGarbage == [is_dict |-> FALSE, symbol |-> None, size_decimals |-> None,
             price_decimals |-> None, market_id |-> None]

Body(code, has, list) ==
    [raises |-> FALSE, code |-> code, has_details |-> has,
     order_book_details |-> list]

(* What one GET of /api/v1/orderBookDetails can produce. DOGE is in none. *)
Responses ==
    { [raises |-> TRUE, code |-> 0, has_details |-> FALSE,
       order_book_details |-> <<>>],
      Body(500, TRUE, <<mETH>>),
      Body(200, FALSE, <<>>),
      Body(200, TRUE, <<>>),
      Body(200, TRUE, <<mETH, mBTC>>),
      Body(200, TRUE, <<mETH2, mBTC>>),
      Body(200, TRUE, <<mBTC, mSOL>>),
      Body(200, TRUE, <<mNoSymbol, mBTC>>),
      Body(200, TRUE, <<mETH, mGarbage, mBTC>>) }

(* The symbols a response body lists, and what it gives for one of them. *)
ListedSymbols(r) ==
    { Val(r.order_book_details[i].symbol) :
        i \in { j \in 1..Len(r.order_book_details) :
                  /\ r.order_book_details[j].is_dict
                  /\ ~IsNone(r.order_book_details[j].symbol) } }
Listed(r, sym) ==
    LET i == CHOOSE j \in 1..Len(r.order_book_details) :
                 /\ r.order_book_details[j].is_dict
                 /\ r.order_book_details[j].symbol = Some(sym)
    IN  r.order_book_details[i]

----------------------------------------------------------------------------
(* The cache part of the adapter's state, passed through the helpers. *)

Cache(md, mi, loaded, n, from) ==
    [market_details |-> md, market_indices |-> mi, markets_loaded |-> loaded,
     fetches |-> n, loaded_from |-> from]

Put(f, k, v) == [x \in DOMAIN f \cup {k} |-> IF x = k THEN v ELSE f[x]]

EmptyDict == [x \in {} |-> None]

----------------------------------------------------------------------------
(* _load_market_details, lines 128-159. *)

(* The loop of lines 143-151 from element i on, then line 153. An element  *)
(* that is no object raises at market.get: the handler of line 158 logs it *)
(* and the entries stored so far stay, with the loaded flag still false.   *)
RECURSIVE StoreMarkets(_, _, _)
StoreMarkets(c, list, i) ==
    IF i > Len(list) THEN [c EXCEPT !.markets_loaded = TRUE]
    ELSE LET market == list[i]
         IN  IF ~market.is_dict THEN c
             ELSE IF IsNone(market.symbol) THEN StoreMarkets(c, list, i + 1)
             ELSE StoreMarkets(
                     [c EXCEPT
                        !.market_details =
                            Put(@, Val(market.symbol),
                                [size_decimals |-> market.size_decimals,
                                 price_decimals |-> market.price_decimals]),
                        !.market_indices =
                            Put(@, Val(market.symbol), market.market_id)],
                     list, i + 1)

(* A faulty variant of Fetch: a 200 body replaces the cache instead of    *)
(* updating it.                                                           *)
FetchIntoEmpty(c, r) ==
    LET c1 == [c EXCEPT !.fetches = @ + 1]
        c2 == StoreMarkets([c1 EXCEPT !.market_details = EmptyDict,
                                      !.market_indices = EmptyDict],
                           r.order_book_details, 1)
    IN  IF r.raises THEN c1
        ELSE IF r.code = 200 /\ r.has_details
             THEN IF c2.markets_loaded
                  THEN [c2 EXCEPT !.loaded_from = Some(r)]
                  ELSE c2
             ELSE c1

(* Lines 133-159 for one response r. *)
Fetch(c, r) ==
    LET c1 == [c EXCEPT !.fetches = @ + 1]
        c2 == StoreMarkets(c1, r.order_book_details, 1)
    IN  IF r.raises THEN c1
        ELSE IF r.code = 200 /\ r.has_details
             THEN IF c2.markets_loaded
                  THEN [c2 EXCEPT !.loaded_from = Some(r)]
                  ELSE c2
             ELSE c1

(* A faulty variant of load_market_details: no early return when loaded. *)
load_market_details_always(c) ==
    IF c.fetches >= MaxFetches THEN {}
    ELSE { Fetch(c, r) : r \in Responses }

(* The caches _load_market_details can leave. *)
load_market_details(c) ==
    IF c.markets_loaded THEN {c}
    ELSE IF c.fetches >= MaxFetches THEN {}
    ELSE { Fetch(c, r) : r \in Responses }

----------------------------------------------------------------------------
(* Outcomes of a call: the cache it leaves and what it returns or raises. *)

Return(v) == [kind |-> "return", val |-> v]
Raise(e) == [kind |-> "raise", val |-> e]
Out(c, ret) == [cache |-> c, ret |-> ret]

ValueError(msg) == [type |-> "ValueError", msg |-> msg]
SymbolNotFound == ValueError("Symbol not found in Lighter market details")
NoMarketDetails == ValueError("Market details not found for symbol")

(* Lines 175-179. *)
FoundOrRaise(c, symbol) ==
    IF symbol \in DOMAIN c.market_indices
    THEN Out(c, Return(c.market_indices[symbol]))
    ELSE Out(c, Raise(SymbolNotFound))

(* A faulty variant of symbol_to_orderbook_id: reloads up to twice. *)
symbol_to_orderbook_id_twice(c, symbol) ==
    UNION { IF symbol \in DOMAIN c1.market_indices
            THEN { Out(c1, Return(c1.market_indices[symbol])) }
            ELSE UNION { IF symbol \in DOMAIN c2.market_indices
                         THEN { Out(c2, Return(c2.market_indices[symbol])) }
                         ELSE { FoundOrRaise(c3, symbol) :
                                  c3 \in load_market_details(
                                      [c2 EXCEPT !.markets_loaded = FALSE]) } :
                         c2 \in load_market_details(
                                    [c1 EXCEPT !.markets_loaded = FALSE]) } :
            c1 \in load_market_details(c) }

(* symbol_to_orderbook_id, lines 161-179. *)
symbol_to_orderbook_id(c, symbol) ==
    UNION { IF symbol \in DOMAIN c1.market_indices
            THEN { Out(c1, Return(c1.market_indices[symbol])) }
            ELSE IF c1.markets_loaded
                 THEN { FoundOrRaise(c2, symbol) :
                          c2 \in load_market_details(
                                     [c1 EXCEPT !.markets_loaded = FALSE]) }
                 ELSE { FoundOrRaise(c1, symbol) } :
            c1 \in load_market_details(c) }

(* get_market_details, lines 181-184: dict.get gives None on a miss. *)
get_market_details(c, symbol) ==
    { Out(c1, Return(IF symbol \in DOMAIN c1.market_details
                     THEN Some(c1.market_details[symbol]) ELSE None)) :
        c1 \in load_market_details(c) }

(* _get_symbol_from_market_id, lines 186-192. The ids of Responses are     *)
(* distinct per symbol, so at most one entry matches.                      *)
get_symbol_from_market_id(c, market_id) ==
    { LET hits == { s \in DOMAIN c1.market_indices :
                      c1.market_indices[s] = Some(market_id) }
      IN  Out(c1, Return(IF hits = {} THEN None
                         ELSE Some(CHOOSE s \in hits : TRUE))) :
        c1 \in load_market_details(c) }

----------------------------------------------------------------------------
(* Sequencing: feed each returned value of S to F, pass a raise through. *)
Bind(S, F(_, _)) ==
    UNION { IF o.ret.kind = "raise" THEN {o} ELSE F(o.cache, o.ret.val) :
            o \in S }

(* _convert_amount_to_base, lines 210-217. *)
convert_amount_to_base(c, amount, symbol) ==
    Bind(get_market_details(c, symbol),
         LAMBDA c1, md :
            IF ~IsNone(md) /\ ~IsNone(Val(md).size_decimals)
            THEN { Out(c1, Return(DecToInt(
                       DecMulPow10(amount, Val(Val(md).size_decimals))))) }
            ELSE { Out(c1, Raise(NoMarketDetails)) })

(* _convert_price_to_lighter, lines 219-227. *)
convert_price_to_lighter(c, price, symbol) ==
    Bind(get_market_details(c, symbol),
         LAMBDA c1, md :
            IF ~IsNone(md) /\ ~IsNone(Val(md).price_decimals)
            THEN { Out(c1, Return(DecToInt(
                       DecMulPow10(price, Val(Val(md).price_decimals))))) }
            ELSE { Out(c1, Raise(NoMarketDetails)) })

(* _convert_from_lighter_amount, lines 229-236: multiplies. *)
convert_from_lighter_amount(c, amount, symbol) ==
    Bind(get_market_details(c, symbol),
         LAMBDA c1, md :
            IF ~IsNone(md) /\ ~IsNone(Val(md).size_decimals)
            THEN { Out(c1, Return(
                       DecMulPow10(amount, Val(Val(md).size_decimals)))) }
            ELSE { Out(c1, Raise(NoMarketDetails)) })

(* _convert_from_lighter_price, lines 239-247: multiplies. *)
convert_from_lighter_price(c, price, symbol) ==
    Bind(get_market_details(c, symbol),
         LAMBDA c1, md :
            IF ~IsNone(md) /\ ~IsNone(Val(md).price_decimals)
            THEN { Out(c1, Return(
                       DecMulPow10(price, Val(Val(md).price_decimals)))) }
            ELSE { Out(c1, Raise(NoMarketDetails)) })

(* _convert_from_lighter_amount_with_market_id, lines 194-200. *)
convert_from_lighter_amount_with_market_id(c, amount, market_id) ==
    Bind(get_symbol_from_market_id(c, market_id),
         LAMBDA c1, symbol :
            IF ~IsNone(symbol)
            THEN convert_from_lighter_amount(c1, amount, Val(symbol))
            ELSE { Out(c1, Return(DecDivPow10(amount, 4))) })

(* _convert_from_lighter_price_with_market_id, lines 202-208. *)
convert_from_lighter_price_with_market_id(c, price, market_id) ==
    Bind(get_symbol_from_market_id(c, market_id),
         LAMBDA c1, symbol :
            IF ~IsNone(symbol)
            THEN convert_from_lighter_price(c1, price, Val(symbol))
            ELSE { Out(c1, Return(DecDivPow10(price, 2))) })

----------------------------------------------------------------------------
(* Order placement, lines 270-338. *)

OrderResult(success, order_id, side, size, price, status, error_message) ==
    [success |-> success, order_id |-> order_id, side |-> side,
     size |-> size, price |-> price, status |-> status,
     error_message |-> error_message]

Failed(msg) == OrderResult(FALSE, None, None, None, None, None, Some(msg))

Directions == {"sell", "SELL", "buy"}
(* str.lower *)
Lower(s) == IF s = "SELL" THEN "sell" ELSE s

(* What signer_client.create_order can do: raise, or give (_, tx_hash, err). *)
VendorRaises(msg) ==
    [raises |-> TRUE, msg |-> msg, tx_hash |-> None, err |-> None]
VendorGives(tx_hash, err) ==
    [raises |-> FALSE, msg |-> "", tx_hash |-> tx_hash, err |-> err]
CreateOrderOutcomes ==
    { VendorRaises(""), VendorRaises("connection reset"),
      VendorGives(Some("0xabc"), None), VendorGives(Some("0xabc"), Some("")),
      VendorGives(None, Some("invalid nonce")) }

(* Python truthiness of an optional string, and of an optional integer. *)
TruthyStr(o) == ~IsNone(o) /\ Val(o) # ""
TruthyInt(o) == ~IsNone(o) /\ Val(o) # 0

Placed(c, request, ret) == [cache |-> c, request |-> request, ret |-> ret]

(* Lines 279-300 and 316-334 after the vendor answered v: the handler of   *)
(* the except clause turns a raise into a failed result.                   *)
AfterCreateOrder(c, request, v, side, size, price) ==
    IF v.raises THEN Placed(c, Some(request), Return(Failed(v.msg)))
    ELSE IF TruthyStr(v.err)
         THEN Placed(c, Some(request), Return(Failed(Val(v.err))))
         ELSE Placed(c, Some(request),
                     Return(OrderResult(TRUE, v.tx_hash, Some(side),
                                        Some(size), price, Some("pending"),
                                        None)))

(* A faulty variant of place_open_order: no except clause. *)
place_open_order_uncaught(c, contract_id, quantity, direction) ==
    UNION { IF o.ret.kind = "raise" THEN { Placed(o.cache, None, o.ret) }
            ELSE { AfterCreateOrder(o.cache, o.ret.val, v, direction,
                                    quantity, None) :
                     v \in CreateOrderOutcomes } :
            o \in Bind(symbol_to_orderbook_id(c, contract_id),
                       LAMBDA c1, market_index :
                         Bind(convert_amount_to_base(c1, quantity, contract_id),
                              LAMBDA c2, amount_base :
                                { Out(c2, Return(
                                    [market_index |-> market_index,
                                     base_amount |-> amount_base,
                                     price |-> 405000,
                                     is_ask |-> Lower(direction) = "sell"])) })) }

(* place_open_order, lines 270-304. *)
place_open_order(c, contract_id, quantity, direction) ==
    UNION { IF o.ret.kind = "raise"
            THEN { Placed(o.cache, None, Return(Failed(o.ret.val.msg))) }
            ELSE { AfterCreateOrder(o.cache, o.ret.val, v, direction,
                                    quantity, None) :
                     v \in CreateOrderOutcomes } :
            o \in Bind(symbol_to_orderbook_id(c, contract_id),
                       LAMBDA c1, market_index :
                         Bind(convert_amount_to_base(c1, quantity, contract_id),
                              LAMBDA c2, amount_base :
                                { Out(c2, Return(
                                    [market_index |-> market_index,
                                     base_amount |-> amount_base,
                                     price |-> 405000,
                                     is_ask |-> Lower(direction) = "sell"])) })) }

(* place_close_order, lines 306-338. *)
place_close_order(c, contract_id, quantity, price, side) ==
    UNION { IF o.ret.kind = "raise"
            THEN { Placed(o.cache, None, Return(Failed(o.ret.val.msg))) }
            ELSE { AfterCreateOrder(o.cache, o.ret.val, v, side, quantity,
                                    Some(price)) :
                     v \in CreateOrderOutcomes } :
            o \in Bind(symbol_to_orderbook_id(c, contract_id),
                       LAMBDA c1, market_index :
                         Bind(convert_amount_to_base(c1, quantity, contract_id),
                              LAMBDA c2, amount_base :
                                Bind(convert_price_to_lighter(c2, price,
                                                              contract_id),
                                     LAMBDA c3, lighter_price :
                                       { Out(c3, Return(
                                           [market_index |-> market_index,
                                            base_amount |-> amount_base,
                                            price |-> lighter_price,
                                            is_ask |-> Lower(side) = "sell"])) }))) }

----------------------------------------------------------------------------
(* get_order_info, lines 360-397. *)

Order(order_id, market_index, market_id, amount_base, price, is_ask) ==
    [order_id |-> order_id, market_index |-> market_index,
     market_id |-> market_id, amount_base |-> amount_base, price |-> price,
     is_ask |-> is_ask, status |-> "open"]

(* Orders of the account. getattr(order, name, None) is None for an order  *)
(* without the attribute. Market 3 is in no response.                      *)
Wanted ==
    { Order(1, mx, mi, Dec(15, 0), Dec(405, 0), FALSE) :
        mx \in {None, Some(0), Some(1), Some(2), Some(3)},
        mi \in {None, Some(0), Some(1)} }
Other == Order(2, Some(1), None, Dec(7, 0), Dec(9, 0), TRUE)

ActiveOrderLists ==
    {<<>>} \cup { <<o>> : o \in Wanted } \cup { <<Other, o>> : o \in Wanted }
           \cup { <<o, Other>> : o \in Wanted }

OrderIds == {"1", "2", "9"}

(* a or b, on optional integers *)
PyOr(a, b) == IF TruthyInt(a) THEN a ELSE b

(* The market id an order carries: its first attribute that is not None. *)
FirstNotNone(order) ==
    IF ~IsNone(order.market_index) THEN order.market_index
    ELSE order.market_id

(* Line 372. *)
CarriedMarketId(order) == PyOr(order.market_index, order.market_id)

OrderInfo(order, size, price, remaining_size) ==
    [order_id |-> Str(order.order_id),
     side |-> IF order.is_ask THEN "sell" ELSE "buy",
     size |-> size, price |-> price, status |-> order.status,
     filled_size |-> Dec(0, 0), remaining_size |-> remaining_size]

(* Lines 372-391 for the matching order. *)
DecodeOrder(c, order) ==
    LET market_id == CarriedMarketId(order)
    IN  IF ~IsNone(market_id)
        THEN Bind(convert_from_lighter_amount_with_market_id(
                      c, order.amount_base, Val(market_id)),
               LAMBDA c1, size :
                 Bind(convert_from_lighter_price_with_market_id(
                          c1, order.price, Val(market_id)),
                    LAMBDA c2, price :
                      Bind(convert_from_lighter_amount_with_market_id(
                               c2, order.amount_base, Val(market_id)),
                         LAMBDA c3, remaining_size :
                           { Out(c3, Return(Some(
                               OrderInfo(order, size, price,
                                         remaining_size)))) })))
        ELSE { Out(c, Return(Some(
                 OrderInfo(order, DecDivPow10(order.amount_base, 4),
                           DecDivPow10(order.price, 2),
                           DecDivPow10(order.amount_base, 4))))) }

(* The first order of the list whose str(order_id) is the one asked for. *)
Matching(active_orders, order_id) ==
    LET hits == { i \in 1..Len(active_orders) :
                    Str(active_orders[i].order_id) = order_id }
    IN  IF hits = {} THEN None
        ELSE Some(active_orders[CHOOSE i \in hits :
                                    \A j \in hits : i <= j])

Info(c, order, ret) == [cache |-> c, order |-> order, ret |-> ret]

(* get_order_info once account_active_orders gave active_orders: any raise *)
(* is caught at line 395 and None returned.                                *)
get_order_info(c, order_id, active_orders) ==
    LET order == Matching(active_orders, order_id)
    IN  IF IsNone(order) THEN { Info(c, None, Return(None)) }
        ELSE { IF o.ret.kind = "raise"
               THEN Info(o.cache, order, Return(None))
               ELSE Info(o.cache, order, o.ret) :
               o \in DecodeOrder(c, Val(order)) }

----------------------------------------------------------------------------
(* The caller: last holds the outcome of the call just made until the     *)
(* caller has taken it; calls do not overlap (one cooperative flow).      *)
Idle == [op |-> "idle"]
Ready == last.op = "idle"

(* The adapter after __init__, lines 60-67. *)

AccountIndex == 1

Init ==
    /\ market_details = EmptyDict
    /\ market_indices = EmptyDict
    /\ markets_loaded = FALSE
    /\ fetches = 0
    /\ loaded_from = None
    /\ order_update_handler = FALSE
    /\ ws_client = None
    /\ clients = 0
    /\ last = Idle

Now == Cache(market_details, market_indices, markets_loaded, fetches,
             loaded_from)

SetCache(c) ==
    /\ market_details' = c.market_details
    /\ market_indices' = c.market_indices
    /\ markets_loaded' = c.markets_loaded
    /\ fetches' = c.fetches
    /\ loaded_from' = c.loaded_from

connVars == <<order_update_handler, ws_client, clients>>
cacheVars == <<market_details, market_indices, markets_loaded, fetches,
               loaded_from>>

(* Decimal arguments. *)
Decimals == { Dec(m, e) : m \in (-MaxMant)..MaxMant, e \in 0..MaxExp }
Quantities == { Dec(15, 1), Dec(2, 0) }
Prices == { Dec(4055, 1) }

SymbolToOrderbookId ==
    /\ Ready
    /\ \E symbol \in Symbols :
      \E o \in symbol_to_orderbook_id(Now, symbol) :
        /\ SetCache(o.cache)
        /\ last' = [op |-> "symbol_to_orderbook_id", symbol |-> symbol,
                    ret |-> o.ret,
                    fetched |-> o.cache.fetches - fetches]
        /\ UNCHANGED connVars

GetMarketDetails ==
    /\ Ready
    /\ \E symbol \in Symbols :
      \E o \in get_market_details(Now, symbol) :
        /\ SetCache(o.cache)
        /\ last' = [op |-> "get_market_details", symbol |-> symbol,
                    ret |-> o.ret,
                    fetched |-> o.cache.fetches - fetches]
        /\ UNCHANGED connVars

ConvertAmountToBase ==
    /\ Ready
    /\ \E symbol \in Symbols, amount \in Decimals :
      \E o \in convert_amount_to_base(Now, amount, symbol) :
        /\ SetCache(o.cache)
        /\ last' = [op |-> "_convert_amount_to_base", symbol |-> symbol,
                    amount |-> amount, ret |-> o.ret,
                    fetched |-> o.cache.fetches - fetches]
        /\ UNCHANGED connVars

ConvertPriceToLighter ==
    /\ Ready
    /\ \E symbol \in Symbols, price \in Decimals :
      \E o \in convert_price_to_lighter(Now, price, symbol) :
        /\ SetCache(o.cache)
        /\ last' = [op |-> "_convert_price_to_lighter", symbol |-> symbol,
                    amount |-> price, ret |-> o.ret,
                    fetched |-> o.cache.fetches - fetches]
        /\ UNCHANGED connVars

ConvertFromLighterAmount ==
    /\ Ready
    /\ \E symbol \in Symbols, amount \in Decimals :
      \E o \in convert_from_lighter_amount(Now, amount, symbol) :
        /\ SetCache(o.cache)
        /\ last' = [op |-> "_convert_from_lighter_amount", symbol |-> symbol,
                    amount |-> amount, ret |-> o.ret,
                    fetched |-> o.cache.fetches - fetches]
        /\ UNCHANGED connVars

ConvertFromLighterPrice ==
    /\ Ready
    /\ \E symbol \in Symbols, price \in Decimals :
      \E o \in convert_from_lighter_price(Now, price, symbol) :
        /\ SetCache(o.cache)
        /\ last' = [op |-> "_convert_from_lighter_price", symbol |-> symbol,
                    amount |-> price, ret |-> o.ret,
                    fetched |-> o.cache.fetches - fetches]
        /\ UNCHANGED connVars

PlaceOpenOrder ==
    /\ Ready
    /\ \E contract_id \in Symbols, quantity \in Quantities,
       direction \in Directions :
      \E o \in place_open_order(Now, contract_id, quantity, direction) :
        /\ SetCache(o.cache)
        /\ last' = [op |-> "place_open_order", symbol |-> contract_id,
                    quantity |-> quantity, side |-> direction,
                    request |-> o.request, ret |-> o.ret,
                    fetched |-> o.cache.fetches - fetches]
        /\ UNCHANGED connVars

PlaceCloseOrder ==
    /\ Ready
    /\ \E contract_id \in Symbols, quantity \in Quantities, price \in Prices,
       side \in Directions :
      \E o \in place_close_order(Now, contract_id, quantity, price, side) :
        /\ SetCache(o.cache)
        /\ last' = [op |-> "place_close_order", symbol |-> contract_id,
                    quantity |-> quantity, side |-> side,
                    request |-> o.request, ret |-> o.ret,
                    fetched |-> o.cache.fetches - fetches]
        /\ UNCHANGED connVars

(* account_active_orders raises: caught at line 395. *)
GetOrderInfoVendorRaises ==
    /\ Ready
    /\ \E order_id \in OrderIds :
        /\ last' = [op |-> "get_order_info", order_id |-> order_id,
                    order |-> None, ret |-> Return(None),
                    fetched |-> 0]
        /\ UNCHANGED <<cacheVars, connVars>>

GetOrderInfo ==
    /\ Ready
    /\ \E order_id \in OrderIds, active_orders \in ActiveOrderLists :
      \E o \in get_order_info(Now, order_id, active_orders) :
        /\ SetCache(o.cache)
        /\ last' = [op |-> "get_order_info", order_id |-> order_id,
                    order |-> o.order, ret |-> o.ret,
                    fetched |-> o.cache.fetches - fetches]
        /\ UNCHANGED connVars

(* The caller takes the outcome and goes on. *)
Resume ==
    /\ ~Ready
    /\ last' = Idle
    /\ UNCHANGED <<cacheVars, connVars>>

Next ==
    \/ Resume
    \/ SymbolToOrderbookId
    \/ GetMarketDetails
    \/ ConvertAmountToBase
    \/ ConvertPriceToLighter
    \/ ConvertFromLighterAmount
    \/ ConvertFromLighterPrice
    \/ PlaceOpenOrder
    \/ PlaceCloseOrder
    \/ GetOrderInfoVendorRaises
    \/ GetOrderInfo

Spec == Init /\ [][Next]_vars

----------------------------------------------------------------------------
(* The WebSocket connection, lines 83-115. *)

OrderbookIds == {0, 1}

(* lighter.WsClient(order_book_ids=[orderbook_id],                         *)
(*                  account_ids=[str(self.account_index)], ...), the id-th *)
(* client constructed; tasks counts the run_async tasks started on it.     *)
WsClient(id, orderbook_id) ==
    [id |-> id, order_book_ids |-> <<orderbook_id>>,
     account_ids |-> <<Str(AccountIndex)>>, tasks |-> 0,
     close_called |-> FALSE]

Conn(handler, ws, n) ==
    [order_update_handler |-> handler, ws_client |-> ws, clients |-> n]

ConnNow == Conn(order_update_handler, ws_client, clients)

SetConn(w) ==
    /\ order_update_handler' = w.order_update_handler
    /\ ws_client' = w.ws_client
    /\ clients' = w.clients

(* Line 86: connect constructs a client. *)
Constructs(w) == IsNone(w.ws_client) /\ w.order_update_handler

(* Lines 93-94: a task running run_async is started on the client held. *)
StartListener(w) ==
    IF IsNone(w.ws_client) THEN w
    ELSE [w EXCEPT !.ws_client = Some([Val(@) EXCEPT !.tasks = @ + 1])]

(* A faulty variant of connect: binds the client to a fixed orderbook. *)
connect_first_orderbook(w, orderbook_id, ctor_ok) ==
    IF Constructs(w)
    THEN IF ctor_ok
         THEN StartListener([w EXCEPT
                  !.ws_client = Some(WsClient(w.clients + 1, 0)),
                  !.clients = @ + 1])
         ELSE w
    ELSE StartListener(w)

(* connect, lines 83-97; ctor_ok: the WsClient constructor does not raise  *)
(* (a raise is logged at line 97 and connect returns).                     *)
connect(w, orderbook_id, ctor_ok) ==
    IF Constructs(w)
    THEN IF ctor_ok
         THEN StartListener([w EXCEPT
                  !.ws_client = Some(WsClient(w.clients + 1, orderbook_id)),
                  !.clients = @ + 1])
         ELSE w
    ELSE StartListener(w)

(* disconnect, lines 99-107; close_ok: ws_client.close() does not raise (a *)
(* raise skips line 105 and is logged at line 107).                        *)
disconnect(w, close_ok) ==
    IF IsNone(w.ws_client) THEN w
    ELSE IF close_ok THEN [w EXCEPT !.ws_client = None]
         ELSE [w EXCEPT !.ws_client = Some([Val(@) EXCEPT
                                              !.close_called = TRUE])]

(* setup_order_update_handler, lines 113-115; handler: a callable is given *)
(* (FALSE: None is given).                                                 *)
setup_order_update_handler(w, handler) ==
    [w EXCEPT !.order_update_handler = handler]

WithinCaps(w) ==
    /\ w.clients <= MaxClients
    /\ IF IsNone(w.ws_client) THEN TRUE
       ELSE Val(w.ws_client).tasks <= MaxTasks

Connect ==
    /\ Ready
    /\ \E orderbook_id \in OrderbookIds,
          ctor_ok \in IF Constructs(ConnNow) THEN BOOLEAN ELSE {TRUE} :
         LET w == connect(ConnNow, orderbook_id, ctor_ok)
         IN  /\ WithinCaps(w)
             /\ SetConn(w)
             /\ last' = [op |-> "connect", orderbook_id |-> orderbook_id,
                         ctor_ok |-> ctor_ok]
             /\ UNCHANGED cacheVars

Disconnect ==
    /\ Ready
    /\ \E close_ok \in IF IsNone(ws_client) THEN {TRUE} ELSE BOOLEAN :
         /\ SetConn(disconnect(ConnNow, close_ok))
         /\ last' = [op |-> "disconnect", close_ok |-> close_ok]
         /\ UNCHANGED cacheVars

SetupOrderUpdateHandler ==
    /\ Ready
    /\ \E handler \in BOOLEAN :
         /\ SetConn(setup_order_update_handler(ConnNow, handler))
         /\ last' = [op |-> "setup_order_update_handler",
                     handler |-> handler]
         /\ UNCHANGED cacheVars

ConnNext ==
    \/ Resume
    \/ Connect
    \/ Disconnect
    \/ SetupOrderUpdateHandler

ConnSpec == Init /\ [][ConnNext]_vars

----------------------------------------------------------------------------
(* Properties of the metadata cache. *)

Lookups == {"symbol_to_orderbook_id", "get_market_details"}

(* What a lookup of symbol returns when it answers from response r. *)
Answer(op, r, symbol) ==
    IF op = "symbol_to_orderbook_id"
    THEN Return(Listed(r, symbol).market_id)
    ELSE Return(Some([size_decimals |-> Listed(r, symbol).size_decimals,
                      price_decimals |-> Listed(r, symbol).price_decimals]))

(* C1: once a fetch has loaded the cache, a symbol_to_orderbook_id or      *)
(* get_market_details call for a symbol the loaded response lists returns   *)
(* exactly the market_id / decimals of that response and issues no fetch.   *)
C1_HitAnswersFromResponse ==
    [][ ( /\ markets_loaded
          /\ last'.op \in Lookups
          /\ last'.symbol \in ListedSymbols(Val(loaded_from)) )
        => /\ fetches' = fetches
           /\ markets_loaded'
           /\ loaded_from' = loaded_from
           /\ last'.ret = Answer(last'.op, Val(loaded_from), last'.symbol)
      ]_vars

(* A lookup answered from the cache after the one fetch made so far. *)
C1_Witness ==
    /\ last.op = "symbol_to_orderbook_id"
    /\ last.symbol = "BTC"
    /\ last.fetched = 0
    /\ fetches = 1
    /\ markets_loaded
    /\ last.ret = Return(Some(1))

InNoResponse(symbol) == \A r \in Responses : symbol \notin ListedSymbols(r)

(* C2: a symbol_to_orderbook_id call always ends (in each state a lookup   *)
(* is made from, it has an outcome for every symbol whenever two more       *)
(* fetches are allowed), issues at most two fetches, and for a symbol no    *)
(* response lists it raises the not-found error, after exactly one fetch    *)
(* (the forced reload) when the cache was loaded at entry.                  *)
C2_LookupEndsWithinTwoFetches ==
    [][ /\ (last'.op \in Lookups /\ fetches + 2 <= MaxFetches)
           => \A symbol \in Symbols :
                 symbol_to_orderbook_id(Now, symbol) # {}
        /\ last'.op = "symbol_to_orderbook_id"
           => /\ fetches' - fetches <= 2
              /\ InNoResponse(last'.symbol)
                 => /\ last'.ret = Raise(SymbolNotFound)
                    /\ markets_loaded => fetches' = fetches + 1
      ]_vars

(* An unknown symbol looked up on a loaded cache: one reload, then the raise. *)
C2_Witness ==
    /\ last.op = "symbol_to_orderbook_id"
    /\ last.symbol = "DOGE"
    /\ last.ret = Raise(SymbolNotFound)
    /\ last.fetched = 1
    /\ fetches = 2
    /\ markets_loaded

----------------------------------------------------------------------------
(* Properties of the unit conversions. *)

(* |x - y| < 10^-d, for decimal values x and y. *)
Within(x, y, d) ==
    Abs(x.m * Pow10(y.e) - y.m * Pow10(x.e)) * Pow10(d) < Pow10(x.e + y.e)

Encoders == {"_convert_amount_to_base", "_convert_price_to_lighter"}

(* The cached decimals an encoder or decoder of `op` uses for symbol. *)
DecimalsFor(op, symbol) ==
    IF op \in {"_convert_amount_to_base", "_convert_from_lighter_amount"}
    THEN market_details[symbol].size_decimals
    ELSE market_details[symbol].price_decimals

(* The decoder that belongs to an encoder, applied to the string of n. *)
Decoded(op, n, symbol) ==
    IF op = "_convert_amount_to_base"
    THEN convert_from_lighter_amount(Now, Dec(n, 0), symbol)
    ELSE convert_from_lighter_price(Now, Dec(n, 0), symbol)

(* C3: decoding what an encoder returned recovers the encoded amount (or   *)
(* price) a to within 10^-d, d the cached decimals of the symbol.          *)
C3_RoundTripRecovers ==
    ( /\ last.op \in Encoders
      /\ last.ret.kind = "return"
      /\ markets_loaded )
    => \A o \in Decoded(last.op, last.ret.val, last.symbol) :
          /\ o.ret.kind = "return"
          /\ Within(o.ret.val, last.amount,
                    Val(DecimalsFor(last.op, last.symbol)))

(* x * 10^d as a fraction M / q of integers, for the last encoder call. *)
ScaledNum == last.amount.m * Pow10(Val(DecimalsFor(last.op, last.symbol)))
ScaledDen == Pow10(last.amount.e)

(* C4 as claimed: an encoder returns the integer nearest to x * 10^d.      *)
C4_EncodeRounds ==
    ( /\ last.op \in Encoders
      /\ last.ret.kind = "return" )
    => 2 * Abs(last.ret.val * ScaledDen - ScaledNum) <= ScaledDen

(* C4 amended: an encoder returns x * 10^d truncated toward zero: the      *)
(* integer n of the sign of x with |n| <= |x * 10^d| < |n| + 1.             *)
C4_EncodeTruncates ==
    ( /\ last.op \in Encoders
      /\ last.ret.kind = "return" )
    => /\ Abs(last.ret.val) * ScaledDen <= Abs(ScaledNum)
       /\ Abs(ScaledNum) < (Abs(last.ret.val) + 1) * ScaledDen
       /\ last.ret.val * ScaledNum >= 0

(* 0.7 encoded with 0 decimals: the fractional part is dropped. *)
C4_Witness ==
    /\ last.op = "_convert_amount_to_base"
    /\ last.symbol = "BTC"
    /\ last.amount = Dec(7, 1)
    /\ last.ret = Return(0)

----------------------------------------------------------------------------
(* Properties of the order operations. *)

Placers == {"place_open_order", "place_close_order"}

(* C5: place_open_order and place_close_order never propagate an          *)
(* exception: they return an OrderResult, and one with success = false has *)
(* its error message set.                                                  *)
C5_PlaceNeverRaises ==
    last.op \in Placers
    => /\ last.ret.kind = "return"
       /\ ~last.ret.val.success => ~IsNone(last.ret.val.error_message)

(* The symbol is in no response: the not-found error becomes a result. *)
C5_Witness ==
    /\ last.op = "place_open_order"
    /\ last.symbol = "DOGE"
    /\ last.ret = Return(Failed(SymbolNotFound.msg))
    /\ IsNone(last.request)

(* The cached symbols whose market id is the one the order carries. *)
SymbolsOf(order) ==
    { s \in DOMAIN market_indices :
        /\ ~IsNone(FirstNotNone(order))
        /\ market_indices[s] = FirstNotNone(order) }

(* C6: get_order_info decodes size and price of the matching order with    *)
(* the cached decimals of the order's own market whenever the order carries *)
(* a market id (0 included) that a cached symbol has, and uses the default  *)
(* scale (amount / 10^4, price / 10^2) otherwise.                           *)
C6_DecodesWithOwnMarket ==
    ( /\ last.op = "get_order_info"
      /\ ~IsNone(last.order)
      /\ markets_loaded
      /\ last.fetched = 0 )
    => LET order == Val(last.order)
       IN  /\ \A s \in SymbolsOf(order) :
                ( /\ ~IsNone(market_details[s].size_decimals)
                  /\ ~IsNone(market_details[s].price_decimals) )
                => last.ret = Return(Some(OrderInfo(order,
                      DecMulPow10(order.amount_base,
                                  Val(market_details[s].size_decimals)),
                      DecMulPow10(order.price,
                                  Val(market_details[s].price_decimals)),
                      DecMulPow10(order.amount_base,
                                  Val(market_details[s].size_decimals)))))
           /\ SymbolsOf(order) = {}
              => last.ret = Return(Some(OrderInfo(order,
                      DecDivPow10(order.amount_base, 4),
                      DecDivPow10(order.price, 2),
                      DecDivPow10(order.amount_base, 4))))

----------------------------------------------------------------------------
(* Properties of a failed fetch and of the cached entries. *)

(* C9: a get_market_details call whose fetch failed returns normally with  *)
(* the loaded flag false and no entry added to the cache, and a lookup made *)
(* while the flag is false issues a new fetch.                              *)
C9_FailedFetchAddsNothing ==
    [][ /\ ( /\ last'.op = "get_market_details"
             /\ fetches' = fetches + 1
             /\ ~markets_loaded' )
           => /\ last'.ret.kind = "return"
              /\ DOMAIN market_details' = DOMAIN market_details
              /\ DOMAIN market_indices' = DOMAIN market_indices
        /\ (last'.op \in Lookups /\ ~markets_loaded)
           => fetches' > fetches
      ]_vars

Entry(md, mi, s) == <<md[s].size_decimals, md[s].price_decimals, mi[s]>>

----------------------------------------------------------------------------
(* Properties of the connection. *)

BoundTo(client, orderbook_id) ==
    /\ client.order_book_ids = <<orderbook_id>>
    /\ client.account_ids = <<Str(AccountIndex)>>

(* C7 as claimed: after connect(orderbook_id) returns the adapter holds a  *)
(* client bound to exactly that orderbook_id and the account id, with its  *)
(* listener started.                                                       *)
C7_ConnectBindsClient ==
    last.op = "connect"
    => /\ ~IsNone(ws_client)
       /\ BoundTo(Val(ws_client), last.orderbook_id)
       /\ Val(ws_client).tasks >= 1

(* C7 amended: connect(orderbook_id) called with no client held, a handler *)
(* registered and the WsClient constructor not raising leaves a new client *)
(* bound to exactly that orderbook_id and the account id with one listener *)
(* task started; called with no client held and no handler registered, or  *)
(* with the constructor raising, it leaves no client; called with a client  *)
(* held it keeps that client, bound as it was, and starts its listener      *)
(* once more.                                                              *)
C7_ConnectBindsNewClientOnly ==
    [][ last'.op = "connect"
        => /\ (IsNone(ws_client) /\ order_update_handler /\ last'.ctor_ok)
              => /\ ~IsNone(ws_client')
                 /\ BoundTo(Val(ws_client'), last'.orderbook_id)
                 /\ Val(ws_client').tasks = 1
                 /\ Val(ws_client').id = clients + 1
                 /\ clients' = clients + 1
           /\ (IsNone(ws_client)
                 /\ ~(order_update_handler /\ last'.ctor_ok))
              => /\ IsNone(ws_client')
                 /\ clients' = clients
           /\ ~IsNone(ws_client)
              => /\ ws_client' =
                      Some([Val(ws_client) EXCEPT !.tasks = @ + 1])
                 /\ clients' = clients
           /\ order_update_handler' = order_update_handler
      ]_vars

(* A second client, constructed by a connect after a disconnect, bound to  *)
(* the orderbook of that connect.                                          *)
C7_Witness ==
    /\ last.op = "connect"
    /\ last.orderbook_id = 1
    /\ ~IsNone(ws_client)
    /\ Val(ws_client).id = 2
    /\ BoundTo(Val(ws_client), 1)
    /\ Val(ws_client).tasks = 1

(* C8: after disconnect() returns the socket-client reference is cleared,  *)
(* also when the vendor close call raised, so that no connect starts a     *)
(* listener on a client whose close was called.                            *)
C8_DisconnectClears ==
    /\ last.op = "disconnect" => IsNone(ws_client)
    /\ last.op = "connect"
       => (IsNone(ws_client) \/ ~Val(ws_client).close_called)

(* C11: at most one run_async listener task has been started on the socket *)
(* client the adapter holds, whatever sequence of connect calls was made.   *)
C11_OneListenerPerClient ==
    IsNone(ws_client) \/ Val(ws_client).tasks <= 1

====
